---------------------------- MODULE Spec2Model ----------------------------
(***************************************************************************)
(* Model of the two batch pipelines of the repository:                     *)
(*   build_report_v3.py      raw order export -> packing workbook          *)
(*   make_shipping_csv_v2.py dataset + packing workbook -> manifest        *)
(* Cell texts are TLA+ strings.  pandas sorts text columns by code point;  *)
(* TextOrder lists every text of the model in that order.                  *)
(***************************************************************************)
EXTENDS Integers, Sequences, FiniteSets, TLC

VARIABLES
    in_headers,   \* packing input: header spellings found in the file
    in_rows,      \* packing input: rows as read (all text)
    pcPack,       \* position of build_report_v3.main
    df,           \* read_table's result
    detail,       \* build_detail's result
    jan_total,    \* jan_totals' result
    report,       \* the saved packing workbook, or NoFile
    src_headers,  \* manifest input: header spellings of the dataset
    src_rows,     \* manifest input: rows as read (all text)
    pcShip,       \* position of make_shipping_csv_v2.main
    orig,         \* the dataset frame of main
    order_seq,    \* extract_order_sequence's result
    sorted_df,    \* main's sorted_df before deduplication
    multi_ids,    \* main's multi_ids
    kept_df,      \* main's sorted_df after deduplication
    out_csv,      \* the delimited manifest, or NoFile
    out_xlsx      \* the annotated workbook, or NoFile

packVars == <<in_headers, in_rows, pcPack, df, detail, jan_total, report>>
shipVars == <<src_headers, src_rows, pcShip, orig, order_seq, sorted_df,
              multi_ids, kept_df, out_csv, out_xlsx>>
vars == <<packVars, shipVars>>

NoFile == [absent |-> TRUE]

---------------------------------------------------------------------------
(* Bounds of the enumerated inputs.                                        *)
MaxQtyLen   == 3   \* characters of a quantity text
MaxAggRows  == 3   \* rows of an unordered packing input
MaxRows     == 4   \* rows of a key-ordered packing input
MaxSeq      == 3   \* rows of an arbitrary detail sheet
MaxShipRows == 3   \* rows of a manifest dataset
MaxE2ERows  == 2   \* rows of each input file of an end-to-end run

---------------------------------------------------------------------------
(* Texts and their order.                                                  *)

\* The first cell of the separator row of the multi-line block
\* ("-- ... --", written in Japanese in the source).
MARKER == "-- multi-line orders --"

\* str() of the float NaN pandas gives for an empty spreadsheet cell.
NAN == "nan"

\* Every text of the model, in code-point (lexicographic) order.
TextOrder ==
    << "", " B", MARKER, "1", "2", "A", "B", "C",
       "J1", "J2", "J3", "P", "X", NAN >>

Code(t) == CHOOSE i \in 1..Len(TextOrder) : TextOrder[i] = t

\* str.strip() on the texts of the model: the padded text loses its leading
\* space, the text of one space becomes empty.
Strip(t) == IF t = " B" THEN "B" ELSE IF t = " " THEN "" ELSE t

Range(s) == {s[i] : i \in 1..Len(s)}

\* Lexicographic order on equal-length integer tuples.
TupleLess(a, b) ==
    \E k \in 1..Len(a) :
        /\ a[k] < b[k]
        /\ \A m \in 1..(k - 1) : a[m] = b[m]

\* sort_values(..., kind="stable"): ascending by key, ties keep their order.
\* key[i] is the tuple of sort-column values of row i.
StableSort(s, key) ==
    LET n == Len(s)
        pos == [i \in 1..n |->
                  1 + Cardinality({j \in 1..n :
                        \/ TupleLess(key[j], key[i])
                        \/ (key[j] = key[i] /\ j < i)})]
    IN  [p \in 1..n |-> s[CHOOSE i \in 1..n : pos[i] = p]]

\* Series.drop_duplicates(): first occurrences, in order.
DropDuplicates(s) ==
    LET keep == {i \in 1..Len(s) : \A j \in 1..(i - 1) : s[j] # s[i]}
        F[i \in 0..Len(s)] ==
            IF i = 0 THEN <<>>
            ELSE IF i \in keep THEN Append(F[i - 1], s[i]) ELSE F[i - 1]
    IN  F[Len(s)]

\* Boolean-mask selection df[mask]: the rows whose mask entry is TRUE, in
\* order.
Filter(s, mask) ==
    LET F[i \in 0..Len(s)] ==
            IF i = 0 THEN <<>>
            ELSE IF mask[i] THEN Append(F[i - 1], s[i]) ELSE F[i - 1]
    IN  F[Len(s)]

SumQty(s) ==
    LET F[i \in 0..Len(s)] == IF i = 0 THEN 0 ELSE F[i - 1] + s[i].qty
    IN  F[Len(s)]

---------------------------------------------------------------------------
(* build_report_v3.py : header normalisation                               *)

REQ_LOWER ==
    << "order id", "order item id", "recipient name", "contribution sku",
       "product name by customer order", "quantity to ship" >>

\* c.strip().lower() on the header spellings of the model.  The Japanese
\* spellings of COL_ALIAS are written "jp:<canonical name>".
StripLower(c) ==
    CASE c = "Order ID"      -> "order id"
      [] c = " order id "    -> "order id"
      [] c = "ORDER ITEM ID" -> "order item id"
      [] c = "Quantity To Ship " -> "quantity to ship"
      [] OTHER -> c

COL_ALIAS(c) ==
    CASE c = "jp:order id"         -> "order id"
      [] c = "jp:order item id"    -> "order item id"
      [] c = "jp:product name by customer order"
                                   -> "product name by customer order"
      [] c = "jp:contribution sku" -> "contribution sku"
      [] c = "jp:quantity to ship" -> "quantity to ship"
      [] c = "jp:recipient name"   -> "recipient name"
      [] OTHER -> c

\* df.rename(columns=lambda c: COL_ALIAS.get(c.strip().lower(), ...))
NormalizeHeaders(hs) == {COL_ALIAS(StripLower(c)) : c \in hs}

\* miss = [h for h in REQ_LOWER if h not in col_map]
MissingHeaders(hs) ==
    {REQ_LOWER[i] : i \in 1..Len(REQ_LOWER)} \ NormalizeHeaders(hs)

---------------------------------------------------------------------------
(* build_report_v3.py : quantity coercion                                  *)

\* The characters a quantity text of the model is made of ("x" stands for
\* any character that is no part of a number).
QtyChars == {"2", "3", "-", ",", ".", " ", "x"}
Digits == {"2", "3"}
DigitVal(c) == IF c = "2" THEN 2 ELSE 3

\* .str.strip(): leading and trailing blanks removed.
StripChars(s) ==
    LET idx == {i \in 1..Len(s) : s[i] # " "}
    IN  IF idx = {} THEN <<>>
        ELSE LET lo == CHOOSE i \in idx : \A j \in idx : i <= j
                 hi == CHOOSE i \in idx : \A j \in idx : j <= i
             IN  SubSeq(s, lo, hi)

\* .str.replace(",", "", regex=False)
RemoveCommas(s) ==
    LET F[i \in 0..Len(s)] ==
            IF i = 0 THEN <<>>
            ELSE IF s[i] = "," THEN F[i - 1] ELSE Append(F[i - 1], s[i])
    IN  F[Len(s)]

DigitsValue(s) ==
    LET F[i \in 0..Len(s)] ==
            IF i = 0 THEN 0 ELSE 10 * F[i - 1] + DigitVal(s[i])
    IN  F[Len(s)]

\* pd.to_numeric(q, errors="coerce").fillna(0).astype(int) on one text:
\* an optional sign, digits with at most one decimal point and at least one
\* digit; anything else is NaN and becomes 0.  astype(int) truncates
\* towards zero.  to_numeric ignores blanks around the number.
ToNumericInt(s) ==
    LET t    == StripChars(s)
        neg  == Len(t) > 0 /\ t[1] = "-"
        body == IF neg THEN Tail(t) ELSE t
        dots == {i \in 1..Len(body) : body[i] = "."}
        ok   == /\ \A i \in 1..Len(body) : body[i] \in Digits \cup {"."}
                /\ Cardinality(dots) <= 1
                /\ \E i \in 1..Len(body) : body[i] \in Digits
        whole == IF dots = {} THEN body
                 ELSE SubSeq(body, 1, (CHOOSE i \in dots : TRUE) - 1)
        mag  == DigitsValue(whole)
    IN  IF ~ok THEN 0 ELSE IF neg THEN 0 - mag ELSE mag

\* read_table, step 5: strip, drop commas, to_numeric, fillna(0), int.
ParseQty(text) == ToNumericInt(RemoveCommas(StripChars(text)))

---------------------------------------------------------------------------
(* build_report_v3.py : read_table                                         *)

LoadRow(r) ==
    [jan |-> r.jan, order_id |-> r.order_id,
     order_item_id |-> r.order_item_id, recipient |-> r.recipient,
     product |-> r.product, qty |-> ParseQty(r.qty)]

\* The frame read_table returns for rows read under complete headers.
LoadedFrame(rows) == [i \in 1..Len(rows) |-> LoadRow(rows[i])]

read_table ==
    /\ pcPack = "read_table"
    /\ IF MissingHeaders(in_headers) # {}
       THEN pcPack' = "fatal" /\ df' = df          \* raise SystemExit
       ELSE pcPack' = "build_detail" /\ df' = LoadedFrame(in_rows)
    /\ UNCHANGED <<in_headers, in_rows, detail, jan_total, report, shipVars>>

---------------------------------------------------------------------------
(* build_report_v3.py : build_detail                                       *)

GroupKey(r) ==
    <<r.jan, r.order_id, r.order_item_id, r.recipient, r.product>>

DetailSortKey(r) ==
    <<Code(r.jan), Code(r.order_id), Code(r.order_item_id),
      Code(r.recipient), Code(r.product)>>

\* A slip of ["qty"].sum(): ["qty"].first(), the quantity of the first row
\* of the group.
GroupTotalFirst(rows, k) ==
    rows[CHOOSE i \in 1..Len(rows) :
            /\ GroupKey(rows[i]) = k
            /\ \A j \in 1..(i - 1) : GroupKey(rows[j]) # k].qty

\* ["qty"].sum() of the group with key k.
GroupTotal(rows, k) ==
    LET F[i \in 0..Len(rows)] ==
            IF i = 0 THEN 0
            ELSE IF GroupKey(rows[i]) = k THEN F[i - 1] + rows[i].qty
            ELSE F[i - 1]
    IN  F[Len(rows)]

\* df.groupby([five keys], as_index=False)["qty"].sum(): one row per
\* distinct key, the keys in ascending order.
GroupSum(rows) ==
    LET keys   == DropDuplicates([i \in 1..Len(rows) |-> GroupKey(rows[i])])
        groups == [g \in 1..Len(keys) |->
                     [jan |-> keys[g][1], order_id |-> keys[g][2],
                      order_item_id |-> keys[g][3], recipient |-> keys[g][4],
                      product |-> keys[g][5],
                      qty |-> GroupTotal(rows, keys[g])]]
    IN  StableSort(groups, [g \in 1..Len(keys) |-> DetailSortKey(groups[g])])

\* A slip of groupby("order_id"): counting per (order_id, order_item_id).
GlobalLinesByItem(rows, r) ==
    Cardinality({i \in 1..Len(rows) :
                    /\ rows[i].order_id = r.order_id
                    /\ rows[i].order_item_id = r.order_item_id})

\* detail.groupby("order_id")["product"].transform("count")
GlobalLines(rows, r) ==
    Cardinality({i \in 1..Len(rows) : rows[i].order_id = r.order_id})

\* detail.groupby(["jan","order_id"])["product"].transform("count")
JanLines(rows, r) ==
    Cardinality({i \in 1..Len(rows) :
                    rows[i].jan = r.jan /\ rows[i].order_id = r.order_id})

BuildDetail(rows) ==
    LET g == GroupSum(rows)
        counted == [i \in 1..Len(g) |->
                      [jan |-> g[i].jan, order_id |-> g[i].order_id,
                       order_item_id |-> g[i].order_item_id,
                       recipient |-> g[i].recipient, product |-> g[i].product,
                       qty |-> g[i].qty,
                       global_lines |-> GlobalLines(g, g[i]),
                       jan_lines |-> JanLines(g, g[i])]]
    IN  StableSort(counted, [i \in 1..Len(g) |-> DetailSortKey(counted[i])])

build_detail ==
    /\ pcPack = "build_detail"
    /\ detail' = BuildDetail(df)
    /\ pcPack' = "jan_totals"
    /\ UNCHANGED <<in_headers, in_rows, df, jan_total, report, shipVars>>

---------------------------------------------------------------------------
(* build_report_v3.py : jan_totals                                         *)

\* sort_values(["jan","qty","product"], ascending=[True,False,True])
TotalsSortKey(r) == <<Code(r.jan), 0 - r.qty, Code(r.product)>>

JanTotals(rows) ==
    LET keys == DropDuplicates(
                    [i \in 1..Len(rows) |-> <<rows[i].jan, rows[i].product>>])
        Total(k) ==
            LET F[i \in 0..Len(rows)] ==
                    IF i = 0 THEN 0
                    ELSE IF <<rows[i].jan, rows[i].product>> = k
                         THEN F[i - 1] + rows[i].qty
                    ELSE F[i - 1]
            IN  F[Len(rows)]
        groups == [g \in 1..Len(keys) |->
                     [jan |-> keys[g][1], product |-> keys[g][2],
                      qty |-> Total(keys[g])]]
        grouped == StableSort(groups,
                      [g \in 1..Len(keys) |->
                          <<Code(groups[g].jan), Code(groups[g].product)>>])
    IN  StableSort(grouped,
                   [g \in 1..Len(keys) |-> TotalsSortKey(grouped[g])])

jan_totals ==
    /\ pcPack = "jan_totals"
    /\ jan_total' = JanTotals(df)
    /\ pcPack' = "write_excel"
    /\ UNCHANGED <<in_headers, in_rows, df, detail, report, shipVars>>

---------------------------------------------------------------------------
(* build_report_v3.py : write_excel                                        *)

\* Header row of the detail sheet; the first label is the one
\* extract_order_sequence looks for (Japanese part written "JP").
DETAIL_HEADER ==
    << "JP/Order ID", "Order item ID", "JP/Recipient", "JP/JAN",
       "JP/Product", "JP/Qty to ship" >>

\* A sheet row is six cells; the quantity cell holds <<q>>, or <<>> when the
\* source writes "" there.
BlankRow == << "", "", "", "", "", <<>> >>
MarkerRow == << MARKER, "", "", "", "", <<>> >>
DataRow(r) ==
    << r.order_id, r.order_item_id, r.recipient, r.jan, r.product, <<r.qty>> >>

Concat(ss) ==
    LET F[i \in 0..Len(ss)] == IF i = 0 THEN <<>> ELSE F[i - 1] \o ss[i]
    IN  F[Len(ss)]

\* A slip of the singles mask: the global_lines test left out.
IsSingleJanOnly(jan, r) == r.jan = jan /\ r.jan_lines = 1

\* (detail["jan"]==jan) & (detail["jan_lines"]==1) & (detail["global_lines"]==1)
IsSingle(jan, r) == r.jan = jan /\ r.jan_lines = 1 /\ r.global_lines = 1

\* The rows the loop over detail["jan"].drop_duplicates() appends.
SinglesSection(d) ==
    LET jans == DropDuplicates([i \in 1..Len(d) |-> d[i].jan])
        Block(idx) ==
            LET singles ==
                    Filter(d, [i \in 1..Len(d) |-> IsSingle(jans[idx], d[i])])
            IN  [i \in 1..Len(singles) |-> DataRow(singles[i])]
                \o (IF idx # Len(jans) THEN <<BlankRow>> ELSE <<>>)
    IN  Concat([idx \in 1..Len(jans) |-> Block(idx)])

\* detail.loc[detail["global_lines"]>=2, "order_id"].drop_duplicates()
MultiIds(d) ==
    LET m == Filter(d, [i \in 1..Len(d) |-> d[i].global_lines >= 2])
    IN  DropDuplicates([i \in 1..Len(m) |-> m[i].order_id])

MultiSortKey(r) ==
    <<Code(r.order_id), Code(r.order_item_id), Code(r.jan),
      Code(r.recipient), Code(r.product)>>

\* The trailing block: blank row, separator row, then the lines of the
\* multi-line orders with a blank row before each new order id but the first.
MultiBlock(d) ==
    LET ids == MultiIds(d)
        isin == Filter(d, [i \in 1..Len(d) |-> d[i].order_id \in Range(ids)])
        multis == StableSort(isin,
                      [i \in 1..Len(isin) |-> MultiSortKey(isin[i])])
        Piece(i) ==
            (IF i > 1 /\ multis[i].order_id # multis[i - 1].order_id
             THEN <<BlankRow>> ELSE <<>>) \o <<DataRow(multis[i])>>
    IN  IF ids = <<>> THEN <<>>
        ELSE <<BlankRow, MarkerRow>>
             \o Concat([i \in 1..Len(multis) |-> Piece(i)])

DetailSheet(d) == SinglesSection(d) \o MultiBlock(d)

TotalsRow(r) == << r.jan, r.product, <<r.qty>> >>

\* The workbook wb.save(outp) writes: the detail sheet and the totals sheet.
Workbook(d, t) ==
    [columns |-> DETAIL_HEADER, rows |-> DetailSheet(d),
     totals |-> [i \in 1..Len(t) |-> TotalsRow(t[i])]]

write_excel ==
    /\ pcPack = "write_excel"
    /\ report' = Workbook(detail, jan_total)
    /\ pcPack' = "done"
    /\ UNCHANGED <<in_headers, in_rows, df, detail, jan_total, shipVars>>

---------------------------------------------------------------------------
(* make_shipping_csv_v2.py : read_csv_all_text                             *)

\* COL_ALIAS of make_shipping_csv_v2.py ("jp:" marks a Japanese spelling).
SHIP_COL_ALIAS(c) ==
    CASE c = "jp:order id"               -> "order id"
      [] c = "jp:order item id"          -> "order item id"
      [] c = "jp:recipient name"         -> "recipient name"
      [] c = "jp:contribution sku"       -> "contribution sku"
      [] c = "jp:product name by customer order"
                                         -> "product name by customer order"
      [] c = "jp:quantity to ship"       -> "quantity to ship"
      [] c = "jp:recipient phone number" -> "recipient phone number"
      [] c = "jp:district"               -> "district"
      [] c = "jp:ship address 1"         -> "ship address 1"
      [] OTHER -> c

\* The frame read_csv_all_text returns: normalised column names, rows as read.
ReadCsvAllText(hs, rows) ==
    [columns |-> {SHIP_COL_ALIAS(StripLower(c)) : c \in hs}, rows |-> rows]

read_csv_all_text ==
    /\ pcShip = "read_csv"
    /\ pcPack \in {"done", "fatal"}
    /\ orig' = ReadCsvAllText(src_headers, src_rows)
    /\ pcShip' = "ensure_order_id"
    /\ UNCHANGED <<src_headers, src_rows, order_seq, sorted_df, multi_ids,
                   kept_df, out_csv, out_xlsx, packVars>>

\* find_col_case_insensitive: the columns whose lower().strip() is the name
\* (the source returns the first; the model's frames hold at most one).
FindColCaseInsensitive(cols, name) ==
    {c \in cols : StripLower(c) = StripLower(name)}

\* main, "Ensure order id column".
ensure_order_id ==
    /\ pcShip = "ensure_order_id"
    /\ IF "order id" \notin orig.columns
          /\ FindColCaseInsensitive(orig.columns, "order id") = {}
       THEN pcShip' = "fatal"                    \* raise SystemExit
       ELSE pcShip' = "normalize"
    /\ UNCHANGED <<src_headers, src_rows, orig, order_seq, sorted_df,
                   multi_ids, kept_df, out_csv, out_xlsx, packVars>>

---------------------------------------------------------------------------
(* make_shipping_csv_v2.py : normalize_phone, district fill                *)

\* t.replace("+81", ""): occurrences removed left to right, no rescan.
RemovePrefix81(s) ==
    LET At(i) == /\ i + 2 <= Len(s)
                 /\ s[i] = "+" /\ s[i + 1] = "8" /\ s[i + 2] = "1"
        \* F[i]: <<result so far, characters still to skip>>
        F[i \in 0..Len(s)] ==
            IF i = 0 THEN <<<<>>, 0>>
            ELSE IF F[i - 1][2] > 0 THEN <<F[i - 1][1], F[i - 1][2] - 1>>
            ELSE IF At(i) THEN <<F[i - 1][1], 2>>
            ELSE <<Append(F[i - 1][1], s[i]), 0>>
    IN  F[Len(s)][1]

\* re.sub(r"\s+", "-", t): each run of blanks becomes one hyphen.
HyphenateBlanks(s) ==
    LET F[i \in 0..Len(s)] ==
            IF i = 0 THEN <<>>
            ELSE IF s[i] # " " THEN Append(F[i - 1], s[i])
            ELSE IF i > 1 /\ s[i - 1] = " " THEN F[i - 1]
            ELSE Append(F[i - 1], "-")
    IN  F[Len(s)]

normalize_phone(val) == HyphenateBlanks(StripChars(RemovePrefix81(val)))

NormalizeRow(cols, r) ==
    LET phone_col    == FindColCaseInsensitive(cols, "recipient phone number")
        district_col == FindColCaseInsensitive(cols, "district")
        addr1_col    == FindColCaseInsensitive(cols, "ship address 1")
        phone == IF phone_col # {}
                 THEN normalize_phone(r.phone) ELSE r.phone
        district == IF /\ district_col # {}
                       /\ addr1_col # {}
                       /\ Strip(r.district) = ""
                    THEN r.addr1 ELSE r.district
    IN  [order_id |-> r.order_id, line_no |-> r.line_no, phone |-> phone,
         district |-> district, addr1 |-> r.addr1]

normalize_fields ==
    /\ pcShip = "normalize"
    /\ orig' = [orig EXCEPT !.rows =
                   [i \in 1..Len(orig.rows) |->
                      NormalizeRow(orig.columns, orig.rows[i])]]
    /\ pcShip' = "extract"
    /\ UNCHANGED <<src_headers, src_rows, order_seq, sorted_df, multi_ids,
                   kept_df, out_csv, out_xlsx, packVars>>

---------------------------------------------------------------------------
(* make_shipping_csv_v2.py : extract_order_sequence                        *)

\* The exact label looked for first (its Japanese part written "JP").
ORDER_ID_LABEL == "JP/Order ID"

\* "Order ID" in c, on the column labels of the model.
ContainsOrderID(c) == c \in {ORDER_ID_LABEL, "Order ID", "Temu Order ID"}

\* A slip of the column search: falling back to the first column instead of
\* leaving col unset.
OrderIdColumnDefaultFirst(columns) ==
    LET exact == {i \in 1..Len(columns) : columns[i] = ORDER_ID_LABEL}
        cand  == {i \in 1..Len(columns) : ContainsOrderID(columns[i])}
        First(S) == CHOOSE i \in S : \A j \in S : i <= j
    IN  IF exact # {} THEN First(exact)
        ELSE IF cand # {} THEN First(cand)
        ELSE 1

\* The index of the column the sequence is read from; 0 when there is none.
OrderIdColumn(columns) ==
    LET exact == {i \in 1..Len(columns) : columns[i] = ORDER_ID_LABEL}
        cand  == {i \in 1..Len(columns) : ContainsOrderID(columns[i])}
        First(S) == CHOOSE i \in S : \A j \in S : i <= j
    IN  IF exact # {} THEN First(exact)
        ELSE IF cand # {} THEN First(cand)
        ELSE 0

\* pd.read_excel(dtype=str) followed by str(x): an empty cell is read as the
\* float NaN, whose str() is "nan"; any other text is kept.
ReadExcelCell(c) == IF c = "" THEN NAN ELSE c

\* [str(x).strip() for x in df[col].tolist() if str(x).strip() != ""]
ExtractOrderSequence(sheet) ==
    LET col   == OrderIdColumn(sheet.columns)
        cells == [i \in 1..Len(sheet.rows) |->
                    Strip(ReadExcelCell(sheet.rows[i][col]))]
    IN  Filter(cells, [i \in 1..Len(cells) |-> cells[i] # ""])

extract_order_sequence ==
    /\ pcShip = "extract"
    /\ IF report = NoFile
       THEN pcShip' = "fatal" /\ order_seq' = order_seq   \* read_excel raises
       ELSE IF OrderIdColumn(report.columns) = 0
       THEN pcShip' = "fatal" /\ order_seq' = order_seq   \* raise SystemExit
       ELSE pcShip' = "sort" /\ order_seq' = ExtractOrderSequence(report)
    /\ UNCHANGED <<src_headers, src_rows, orig, sorted_df, multi_ids,
                   kept_df, out_csv, out_xlsx, packVars>>

---------------------------------------------------------------------------
(* make_shipping_csv_v2.py : main, "Stable sort by sequence"               *)

\* The default rank of order_rank.get(x, 10**12).  TLC's integers are 32
\* bits wide; a rank is a position in a sheet of at most 1,048,576 rows, so
\* 10**9 stands for 10**12 without changing any comparison.
SENTINEL_RANK == 1000000000

\* {oid: i for i, oid in enumerate(seq_filtered)}[oid]: a later entry of the
\* comprehension overwrites an earlier one for the same key.
OrderRank(seq_filtered, oid) ==
    LET at == {i \in 1..Len(seq_filtered) : seq_filtered[i] = oid}
    IN  (CHOOSE i \in at : \A j \in at : j <= i) - 1

\* A slip of the default rank: order_rank.get(x, 0).
RankOfZeroDefault(seq_filtered, oid) ==
    IF oid \in Range(seq_filtered) THEN OrderRank(seq_filtered, oid)
    ELSE 0

\* order_rank.get(x, 10**12)
RankOf(seq_filtered, oid) ==
    IF oid \in Range(seq_filtered) THEN OrderRank(seq_filtered, oid)
    ELSE SENTINEL_RANK

\* seq_filtered = [oid for oid in order_seq if oid in order_set]
SeqFiltered(rows, seq) ==
    LET order_set == {rows[i].order_id : i \in 1..Len(rows)}
    IN  Filter(seq, [i \in 1..Len(seq) |-> seq[i] \in order_set])

RankIdxKey(r) == <<r._rank, r._idx>>

\* orig with _rank and _idx, sorted by (_rank, _idx), stable.
SortBySequence(rows, seq) ==
    LET sf == SeqFiltered(rows, seq)
        tagged == [i \in 1..Len(rows) |->
                     [order_id |-> rows[i].order_id,
                      line_no |-> rows[i].line_no, phone |-> rows[i].phone,
                      district |-> rows[i].district, addr1 |-> rows[i].addr1,
                      _rank |-> RankOf(sf, rows[i].order_id),
                      _idx |-> i - 1]]
    IN  StableSort(tagged, [i \in 1..Len(rows) |-> RankIdxKey(tagged[i])])

sort_by_sequence ==
    /\ pcShip = "sort"
    /\ sorted_df' = SortBySequence(orig.rows, order_seq)
    /\ pcShip' = "dedup"
    /\ UNCHANGED <<src_headers, src_rows, orig, order_seq, multi_ids,
                   kept_df, out_csv, out_xlsx, packVars>>

---------------------------------------------------------------------------
(* make_shipping_csv_v2.py : main, "Deduplicate multi-line orders"         *)

\* set(counts[counts > 1].index)
MultiOccurrence(rows) ==
    {oid \in {rows[i].order_id : i \in 1..Len(rows)} :
        Cardinality({i \in 1..Len(rows) : rows[i].order_id = oid}) > 1}

\* A slip of the loop: seen.add(oid) left out, so no row is ever dropped.
KeepListSeenNeverSet(rows, multi) == [i \in 1..Len(rows) |-> TRUE]

\* The loop building keep_list; F[i] is <<keep_list, seen>> after i rows.
KeepList(rows, multi) ==
    LET F[i \in 0..Len(rows)] ==
            IF i = 0 THEN << <<>>, {} >>
            ELSE LET oid == rows[i].order_id
                     kl  == F[i - 1][1]
                     seen == F[i - 1][2]
                 IN  IF oid \in multi
                     THEN IF oid \in seen
                          THEN <<Append(kl, FALSE), seen>>
                          ELSE <<Append(kl, TRUE), seen \cup {oid}>>
                     ELSE <<Append(kl, TRUE), seen>>
    IN  F[Len(rows)][1]

\* drop(columns=["_rank","_idx"])
DropRankIdx(r) ==
    [order_id |-> r.order_id, line_no |-> r.line_no, phone |-> r.phone,
     district |-> r.district, addr1 |-> r.addr1]

\* sorted_df.loc[keep_list] without the two helper columns.
Deduplicate(rows, multi) ==
    LET keep == KeepList(rows, multi)
        F[i \in 0..Len(rows)] ==
            IF i = 0 THEN <<>>
            ELSE IF keep[i] THEN Append(F[i - 1], DropRankIdx(rows[i]))
            ELSE F[i - 1]
    IN  F[Len(rows)]

deduplicate ==
    /\ pcShip = "dedup"
    /\ multi_ids' = MultiOccurrence(sorted_df)
    /\ kept_df' = Deduplicate(sorted_df, MultiOccurrence(sorted_df))
    /\ pcShip' = "write_csv"
    /\ UNCHANGED <<src_headers, src_rows, orig, order_seq, sorted_df,
                   out_csv, out_xlsx, packVars>>

---------------------------------------------------------------------------
(* make_shipping_csv_v2.py : main, outputs                                 *)

\* sorted_df.to_csv(out_csv, ...)
write_csv ==
    /\ pcShip = "write_csv"
    /\ out_csv' = [columns |-> orig.columns, rows |-> kept_df]
    /\ pcShip' = "write_xlsx"
    /\ UNCHANGED <<src_headers, src_rows, orig, order_seq, sorted_df,
                   multi_ids, kept_df, out_xlsx, packVars>>

\* The annotated copy: every row, blue when its order id is in multi_ids.
Annotated(rows, multi) ==
    [i \in 1..Len(rows) |->
        [row |-> rows[i], blue |-> rows[i].order_id \in multi]]

\* The try block: the workbook is saved, or an exception (the workbook
\* library missing or failing) is caught and the copy is skipped.
write_xlsx ==
    /\ pcShip = "write_xlsx"
    /\ \/ out_xlsx' = [columns |-> orig.columns,
                       rows |-> Annotated(kept_df, multi_ids)]
       \/ out_xlsx' = out_xlsx
    /\ pcShip' = "done"
    /\ UNCHANGED <<src_headers, src_rows, orig, order_seq, sorted_df,
                   multi_ids, kept_df, out_csv, packVars>>

---------------------------------------------------------------------------
(* Inputs.                                                                 *)

SeqsUpTo(S, n) == UNION {[1..k -> S] : k \in 0..n}

\* The non-decreasing index sequences of length k over 1..m.
RECURSIVE NonDecreasing(_, _)
NonDecreasing(k, m) ==
    IF k = 0 THEN {<<>>}
    ELSE UNION {{Append(s, v) : s \in NonDecreasing(k - 1, v)} : v \in 1..m}

RawRow(jan, oid, item, qty) ==
    [jan |-> jan, order_id |-> oid, order_item_id |-> item,
     recipient |-> "X", product |-> "P", qty |-> qty]

\* Header rows of a packing input: complete (canonical, or other spellings
\* of the same columns), and two with required columns missing.
GoodHeaders ==
    {"order id", "order item id", "recipient name", "contribution sku",
     "product name by customer order", "quantity to ship"}
SpelledHeaders ==
    {" order id ", "ORDER ITEM ID", "jp:recipient name", "contribution sku",
     "jp:product name by customer order", "Quantity To Ship ", "memo"}
PackHeaderSets ==
    {GoodHeaders, SpelledHeaders,
     GoodHeaders \ {"quantity to ship"},
     {"Order ID", "memo"}}

\* Unordered inputs: two product codes, two items, two quantity texts, one
\* order (rows in any order, repeated keys included).
AggRows ==
    {RawRow(j, "A", i, q) :
        j \in {"J1", "J2"}, i \in {"1", "2"},
        q \in {<<"2">>, <<"3">>}}

\* Key-ordered inputs: three product codes, three orders, a second item for
\* one order of each product code.  The keys are listed in ascending order.
SheetKeys ==
    << <<"J1","A","1">>, <<"J1","A","2">>, <<"J1","B","1">>, <<"J1","C","1">>,
       <<"J2","A","1">>, <<"J2","B","1">>, <<"J2","B","2">>, <<"J2","C","1">>,
       <<"J3","A","1">>, <<"J3","B","1">>, <<"J3","C","1">>, <<"J3","C","2">> >>

KeyedRows(keys, n) ==
    {[i \in 1..Len(s) |->
        RawRow(keys[s[i]][1], keys[s[i]][2], keys[s[i]][3], <<"2">>)] :
     s \in UNION {NonDecreasing(k, Len(keys)) : k \in 0..n}}

\* One-row inputs with every quantity text of the bounded alphabet.
QtyTexts == SeqsUpTo(QtyChars, MaxQtyLen)

PackInputs ==
    ({GoodHeaders} \X SeqsUpTo(AggRows, MaxAggRows))
    \cup ({GoodHeaders} \X KeyedRows(SheetKeys, MaxRows))
    \cup ({GoodHeaders} \X {<<RawRow("J1", "A", "1", q)>> : q \in QtyTexts})
    \cup (PackHeaderSets \X {<<RawRow("J1", "A", "1", <<"2">>)>>})

ShipIdle ==
    /\ src_headers = {} /\ src_rows = <<>> /\ pcShip = "idle"
    /\ orig = [columns |-> {}, rows |-> <<>>]
    /\ order_seq = <<>> /\ sorted_df = <<>> /\ multi_ids = {}
    /\ kept_df = <<>> /\ out_csv = NoFile /\ out_xlsx = NoFile

PackStart ==
    /\ pcPack = "read_table"
    /\ df = <<>> /\ detail = <<>> /\ jan_total = <<>> /\ report = NoFile

\* One run of build_report_v3.main on an input file.
InitPack ==
    /\ \E inp \in PackInputs : in_headers = inp[1] /\ in_rows = inp[2]
    /\ PackStart
    /\ ShipIdle

NextPack == read_table \/ build_detail \/ jan_totals \/ write_excel

SpecPack == InitPack /\ [][NextPack]_vars

---------------------------------------------------------------------------
(* Inputs of the manifest pipeline.                                        *)

ShipRow(oid, n, phone, district) ==
    [order_id |-> oid, line_no |-> n, phone |-> phone,
     district |-> district, addr1 |-> "T"]

ShipGoodHeaders ==
    {"order id", "memo", "recipient phone number", "district",
     "ship address 1"}
ShipHeaderSets ==
    {ShipGoodHeaders,
     {"Order ID", "memo", "jp:recipient phone number", "jp:district",
      "jp:ship address 1"},
     {"jp:order id", "memo", "district"},
     {"memo", "recipient phone number", "district", "ship address 1"}}

DefaultPhone == <<"+", "8", "1", " ", "9">>
PhoneTexts ==
    {DefaultPhone, <<"+", "8", "1", " ", "9", " ", " ", "9">>,
     <<" ", "9", "+", "8", "1">>, <<"+", "8", "+", "8", "1", "1">>}

\* A dataset whose rows carry the given order ids; line_no is a column of
\* the dataset that numbers its rows.
Dataset(ids) == [i \in 1..Len(ids) |-> ShipRow(ids[i], i, DefaultPhone, "")]

\* A workbook found on disk: a detail sheet with the given column labels and
\* the given texts in its first column.
Sheet(columns, cells) ==
    [columns |-> columns,
     rows |-> [i \in 1..Len(cells) |-> << cells[i], "", "", "", "", <<>> >>],
     totals |-> <<>>]

ReportColumnSets ==
    {DETAIL_HEADER, <<"Memo", "Temu Order ID", "Order ID">>,
     <<"Order item ID", "Memo">>}

\* <<dataset headers, dataset rows, workbook>>
ShipInputs ==
    ({ShipGoodHeaders}
        \X {Dataset(ids) : ids \in SeqsUpTo({"A", "B", "C"}, MaxShipRows)}
        \X {Sheet(DETAIL_HEADER, c) : c \in SeqsUpTo({"", " B", "A", "B"}, MaxSeq)})
    \cup (ShipHeaderSets \X {Dataset(<<"A">>)}
            \X {Sheet(c, <<"A">>) : c \in ReportColumnSets})
    \cup (ShipHeaderSets
            \X {<<ShipRow("A", 1, ph, d)>> :
                    ph \in PhoneTexts, d \in {"", " ", "D"}}
            \X {Sheet(DETAIL_HEADER, <<"A">>)})
    \cup ({ShipGoodHeaders} \X {Dataset(<<"B", " B", "A">>)}
            \X {Sheet(<<"Order ID">>, c) :
                    c \in SeqsUpTo({"", " ", " B", "A", MARKER}, 2)})

ShipStart ==
    /\ pcShip = "read_csv"
    /\ orig = [columns |-> {}, rows |-> <<>>]
    /\ order_seq = <<>> /\ sorted_df = <<>> /\ multi_ids = {}
    /\ kept_df = <<>> /\ out_csv = NoFile /\ out_xlsx = NoFile

\* One run of make_shipping_csv_v2.main on a dataset and a workbook that is
\* already on disk (no packing run is part of the behaviour).
InitShip ==
    /\ \E inp \in ShipInputs :
          src_headers = inp[1] /\ src_rows = inp[2] /\ report = inp[3]
    /\ ShipStart
    /\ in_headers = {} /\ in_rows = <<>> /\ pcPack = "done"
    /\ df = <<>> /\ detail = <<>> /\ jan_total = <<>>

NextShip ==
    \/ read_csv_all_text \/ ensure_order_id \/ normalize_fields
    \/ extract_order_sequence \/ sort_by_sequence \/ deduplicate
    \/ write_csv \/ write_xlsx

SpecShip == InitShip /\ [][NextShip]_vars

---------------------------------------------------------------------------
(* End-to-end runs: the packing pipeline, then the manifest pipeline on the *)
(* workbook it saved (or failed to save).                                   *)

\* Two product codes, three orders (one with a padded id), two items, in
\* ascending key order.
E2EKeys ==
    << <<"J1"," B","1">>, <<"J1"," B","2">>, <<"J1","A","1">>, <<"J1","A","2">>,
       <<"J1","B","1">>, <<"J1","B","2">>, <<"J2"," B","1">>, <<"J2"," B","2">>,
       <<"J2","A","1">>, <<"J2","A","2">>, <<"J2","B","1">>, <<"J2","B","2">> >>

\* <<packing headers, packing rows, dataset headers, dataset rows>>
E2EInputs ==
    ({GoodHeaders} \X KeyedRows(E2EKeys, MaxE2ERows)
        \X {ShipGoodHeaders}
        \X {Dataset(ids) : ids \in SeqsUpTo({" B", "A", "B"}, MaxE2ERows)})
    \cup (PackHeaderSets \X {<<RawRow("J1", "A", "1", <<"2">>)>>}
            \X ShipHeaderSets \X {Dataset(<<"A">>)})

\* Runs of the manifest pipeline alone on a workbook found on disk.
StoredInputs ==
    ShipHeaderSets \X {Dataset(<<"A">>)}
        \X {Sheet(c, <<"A">>) : c \in ReportColumnSets}

Init ==
    /\ ShipStart
    /\ \/ /\ \E inp \in E2EInputs :
                /\ in_headers = inp[1] /\ in_rows = inp[2]
                /\ src_headers = inp[3] /\ src_rows = inp[4]
          /\ PackStart
       \/ /\ \E inp \in StoredInputs :
                src_headers = inp[1] /\ src_rows = inp[2] /\ report = inp[3]
          /\ in_headers = {} /\ in_rows = <<>> /\ pcPack = "done"
          /\ df = <<>> /\ detail = <<>> /\ jan_total = <<>>

Next == NextPack \/ NextShip

Spec == Init /\ [][Next]_vars

---------------------------------------------------------------------------
(* Properties of the packing pipeline (SpecPack).                          *)

DetailBuilt == pcPack \in {"jan_totals", "write_excel", "done"}

Indices(s) == 1..Len(s)

\* The sum of qty over the rows of s whose key is k.
KeyQty(s, k) ==
    LET F[i \in 0..Len(s)] ==
            IF i = 0 THEN 0
            ELSE F[i - 1] + (IF GroupKey(s[i]) = k THEN s[i].qty ELSE 0)
    IN  F[Len(s)]

\* C4: once build_detail has run, the qty of the Aggregated Lines sums to
\* the qty of the Raw Rows, and the Raw Rows of one (product code, order id,
\* order-item id, recipient, product) tuple are one Aggregated Line whose qty
\* is the sum of theirs.
C4_AggregationPreservesQty ==
    DetailBuilt =>
        /\ SumQty(detail) = SumQty(df)
        /\ \A i \in Indices(df) :
              LET k == GroupKey(df[i])
                  lines == {j \in Indices(detail) : GroupKey(detail[j]) = k}
              IN  /\ Cardinality(lines) = 1
                  /\ \A j \in lines : detail[j].qty = KeyQty(df, k)
        /\ \A j \in Indices(detail) :
              \E i \in Indices(df) : GroupKey(df[i]) = GroupKey(detail[j])

\* Two Raw Rows of one tuple, qty 2 and 3, merged into a line of qty 5.
C4_Witness ==
    /\ pcPack = "done"
    /\ \E i, j \in Indices(df) :
          /\ i < j /\ GroupKey(df[i]) = GroupKey(df[j])
          /\ df[i].qty = 2 /\ df[j].qty = 3
          /\ \E m \in Indices(detail) :
                GroupKey(detail[m]) = GroupKey(df[i]) /\ detail[m].qty = 5

\* C5: for every Aggregated Line, jan_lines is the number of Aggregated
\* Lines of its product code and order id, global_lines the number of its
\* order id, and 1 <= jan_lines <= global_lines.
C5_LineCounts ==
    DetailBuilt =>
        \A i \in Indices(detail) :
            /\ detail[i].jan_lines =
                  Cardinality({j \in Indices(detail) :
                      /\ detail[j].jan = detail[i].jan
                      /\ detail[j].order_id = detail[i].order_id})
            /\ detail[i].global_lines =
                  Cardinality({j \in Indices(detail) :
                      detail[j].order_id = detail[i].order_id})
            /\ 1 <= detail[i].jan_lines
            /\ detail[i].jan_lines <= detail[i].global_lines

\* An order with two lines under one product code and a third under another.
C5_Witness ==
    /\ DetailBuilt
    /\ \E i, j \in Indices(detail) :
          /\ detail[i].order_id = detail[j].order_id
          /\ detail[i].jan_lines = 2 /\ detail[i].global_lines = 3
          /\ detail[j].jan_lines = 1 /\ detail[j].global_lines = 3

\* C6: after read_table every qty is an integer >= 0, and a blank or
\* non-numeric quantity text gives 0.
C6_QtyNonNegative ==
    pcPack \in {"build_detail", "jan_totals", "write_excel", "done"} =>
        \A i \in Indices(df) :
            /\ df[i].qty \in Nat
            /\ (\A c \in Range(in_rows[i].qty) : c \in {" ", "x"})
                  => df[i].qty = 0

---------------------------------------------------------------------------
(* The detail sheet as a reader sees it.                                   *)

IsDataRow(row) == row[6] # <<>>

SheetRows == IF report = NoFile THEN <<>> ELSE report.rows

\* The index of the separator row of the multi-line block; past the end of
\* the sheet when there is no such block.
MarkerIndex ==
    IF \E i \in Indices(SheetRows) : SheetRows[i] = MarkerRow
    THEN CHOOSE i \in Indices(SheetRows) : SheetRows[i] = MarkerRow
    ELSE Len(SheetRows) + 1

SinglesData == {i \in Indices(SheetRows) : i < MarkerIndex /\ IsDataRow(SheetRows[i])}
MultiData   == {i \in Indices(SheetRows) : i > MarkerIndex /\ IsDataRow(SheetRows[i])}

\* C9: every Aggregated Line is exactly one data row of the detail sheet: in
\* the singles section, within the rows of its product code, when
\* global_lines = 1, in the trailing block when global_lines >= 2; and the
\* sheet has no other data row.
C9_SheetPartition ==
    pcPack = "done" =>
        /\ \A m \in Indices(detail) :
              LET at == {i \in Indices(SheetRows) :
                            SheetRows[i] = DataRow(detail[m])}
              IN  /\ Cardinality(at) = 1
                  /\ detail[m].global_lines = 1 => at \subseteq SinglesData
                  /\ detail[m].global_lines >= 2 => at \subseteq MultiData
        /\ \A i \in SinglesData \cup MultiData :
              \E m \in Indices(detail) : SheetRows[i] = DataRow(detail[m])
        /\ \A i, j \in SinglesData :
              (i < j /\ SheetRows[i][4] = SheetRows[j][4]) =>
                  \A n \in SinglesData :
                      (i < n /\ n < j) => SheetRows[n][4] = SheetRows[i][4]

\* A sheet with a singles row and a two-line order in the trailing block.
C9_Witness ==
    /\ pcPack = "done"
    /\ SinglesData # {}
    /\ \E i, j \in MultiData : i # j /\ SheetRows[i][1] = SheetRows[j][1]
    /\ \E m \in Indices(detail) :
          detail[m].jan_lines = 1 /\ detail[m].global_lines = 2

\* C10: in the singles section, the rows of one product code follow each
\* other directly and the rows of two consecutive product codes are
\* separated by exactly one blank row.
C10_OneBlankBetweenBlocks ==
    pcPack = "done" =>
        \A i, j \in SinglesData :
            (i < j /\ \A n \in SinglesData : ~(i < n /\ n < j)) =>
                IF SheetRows[i][4] = SheetRows[j][4]
                THEN j = i + 1 ELSE j = i + 2

---------------------------------------------------------------------------
(* Properties of the manifest pipeline (SpecShip).                         *)

Sorted == pcShip \in {"dedup", "write_csv", "write_xlsx", "done"}
Deduplicated == pcShip \in {"write_csv", "write_xlsx", "done"}

\* The position of the first occurrence of oid in the sequence s.
FirstPos(s, oid) ==
    CHOOSE i \in Indices(s) : s[i] = oid /\ \A j \in 1..(i - 1) : s[j] # oid

Ids(rows) == [i \in Indices(rows) |-> rows[i].order_id]

\* C1: the rows whose order id occurs in the sequence are in the order of
\* (position of the first occurrence of the order id, original row index);
\* with sequence [A, B, A] and rows B, A, C the result is A, B, C.
C1_FirstOccurrenceOrder ==
    Sorted =>
        /\ \A i, j \in Indices(sorted_df) :
              (/\ i < j
               /\ sorted_df[i].order_id \in Range(order_seq)
               /\ sorted_df[j].order_id \in Range(order_seq)) =>
                  LET pi == FirstPos(order_seq, sorted_df[i].order_id)
                      pj == FirstPos(order_seq, sorted_df[j].order_id)
                  IN  pi < pj \/ (pi = pj /\ sorted_df[i]._idx < sorted_df[j]._idx)
        /\ (order_seq = <<"A", "B", "A">> /\ Ids(orig.rows) = <<"B", "A", "C">>)
              => Ids(sorted_df) = <<"A", "B", "C">>

\* In rows, a row whose order id is absent from order_seq comes after every
\* row whose order id is in it, and the absent ones are in dataset order.
UnmatchedLast(rows) ==
    \A i, j \in Indices(rows) :
        /\ (/\ rows[i].order_id \notin Range(order_seq)
            /\ rows[j].order_id \in Range(order_seq)) => j < i
        /\ (/\ i < j
            /\ rows[i].order_id \notin Range(order_seq)
            /\ rows[j].order_id \notin Range(order_seq))
              => rows[i].line_no < rows[j].line_no

\* C3: a row whose order id is absent from the extracted sequence comes
\* after every row whose order id is in it, and the absent ones keep their
\* original relative order; in sorted_df and in the written manifest.
C3_UnmatchedRowsLast ==
    /\ Sorted => UnmatchedLast(sorted_df)
    /\ out_csv # NoFile => UnmatchedLast(out_csv.rows)

\* Two unmatched rows stood before a matched row in the dataset.
C3_Witness ==
    /\ out_csv # NoFile
    /\ \E i, j, k \in Indices(orig.rows) :
          /\ i < j /\ j < k
          /\ orig.rows[i].order_id \notin Range(order_seq)
          /\ orig.rows[j].order_id \notin Range(order_seq)
          /\ orig.rows[i].order_id # orig.rows[j].order_id
          /\ orig.rows[k].order_id \in Range(order_seq)

Occurrences(rows, oid) == {i \in Indices(rows) : rows[i].order_id = oid}

\* Every order id of sorted_df has exactly one row in rows: its first row
\* in sorted_df.
FirstRowsOnly(rows) ==
    \A i \in Indices(sorted_df) :
        LET oid   == sorted_df[i].order_id
            first == CHOOSE m \in Occurrences(sorted_df, oid) :
                        \A n \in Occurrences(sorted_df, oid) : m <= n
            at    == Occurrences(rows, oid)
        IN  /\ Cardinality(at) = 1
            /\ \A m \in at : rows[m] = DropRankIdx(sorted_df[first])

\* C2: of an order id with k > 1 rows in the sorted dataset exactly one row
\* is in the output, the first in sorted order; an order id with one row
\* keeps it.  On main's deduplicated frame and on the written manifest.
C2_FirstOccurrenceSurvives ==
    /\ Deduplicated => FirstRowsOnly(kept_df)
    /\ out_csv # NoFile => FirstRowsOnly(out_csv.rows)

\* An order id with two rows, apart in the dataset and brought together by
\* the sort, and an order id with one row.
C2_Witness ==
    /\ out_csv # NoFile
    /\ order_seq # <<>>
    /\ \E i, j, k \in Indices(orig.rows) :
          /\ i < j /\ j < k
          /\ orig.rows[i].order_id = orig.rows[k].order_id
          /\ orig.rows[j].order_id # orig.rows[i].order_id
    /\ Len(out_csv.rows) = Len(sorted_df) - 1

---------------------------------------------------------------------------
(* Properties of whole runs (Spec).                                        *)

DatasetHasOrderId ==
    \E c \in src_headers : SHIP_COL_ALIAS(StripLower(c)) = "order id"

SheetHasOrderId ==
    /\ report # NoFile
    /\ \E i \in Indices(report.columns) : ContainsOrderID(report.columns[i])

RequiredHeadersPresent ==
    \A i \in Indices(REQ_LOWER) :
        \E c \in in_headers : COL_ALIAS(StripLower(c)) = REQ_LOWER[i]

PackRan == in_headers # {}

\* C7: a packing run with a required header missing ends fatal and writes
\* no workbook; a manifest run on a dataset without order-id column, or on a
\* workbook whose detail sheet has no order-id column, ends fatal and writes
\* neither manifest nor annotated workbook; an output is written only after
\* the checks of its run have passed.
C7_NoOutputOnFatalError ==
    /\ PackRan =>
          /\ (report # NoFile => RequiredHeadersPresent)
          /\ (pcPack # "read_table" /\ ~RequiredHeadersPresent)
                => (pcPack = "fatal" /\ report = NoFile)
          /\ (pcPack = "fatal" => report = NoFile)
    /\ (out_csv # NoFile \/ out_xlsx # NoFile)
          => (DatasetHasOrderId /\ SheetHasOrderId)
    /\ (pcShip \notin {"read_csv", "ensure_order_id"} /\ ~DatasetHasOrderId)
          => pcShip = "fatal"
    /\ (pcShip \in {"sort", "dedup", "write_csv", "write_xlsx", "done"})
          => SheetHasOrderId
    /\ pcShip = "fatal" => (out_csv = NoFile /\ out_xlsx = NoFile)
    /\ out_xlsx # NoFile => out_csv # NoFile

\* A manifest run that got past the dataset check and ended fatal on a
\* workbook whose detail sheet has no order-id column.
C7_Witness ==
    /\ pcShip = "fatal"
    /\ DatasetHasOrderId
    /\ report # NoFile /\ ~SheetHasOrderId
    /\ out_csv = NoFile /\ out_xlsx = NoFile

\* The order ids of the data rows of the detail sheet.
SheetIds == {SheetRows[i][1] : i \in SinglesData \cup MultiData}

FirstSheetRow(oid) ==
    CHOOSE i \in SinglesData \cup MultiData :
        /\ SheetRows[i][1] = oid
        /\ \A j \in SinglesData \cup MultiData :
              SheetRows[j][1] = oid => i <= j

ManifestRow(oid) ==
    CHOOSE i \in Indices(out_csv.rows) : out_csv.rows[i].order_id = oid

\* C8: in a run of both pipelines, two order ids of the manifest dataset
\* that are both in the detail sheet have their manifest rows in the order
\* of their first appearances in the detail sheet.
C8_ManifestFollowsSheet ==
    (PackRan /\ pcPack = "done" /\ out_csv # NoFile) =>
        \A a, b \in SheetIds \cap Range(Ids(out_csv.rows)) :
            (ManifestRow(a) < ManifestRow(b))
                <=> (FirstSheetRow(a) < FirstSheetRow(b))

=============================================================================
